---------------------------- MODULE Spec2Model ----------------------------
(***************************************************************************)
(* The client-side authentication store of src/src/hooks/useAuth.tsx       *)
(* (AuthProvider, lines 54-384) together with the backend-API client of    *)
(* src/src/lib/api.ts it calls.                                            *)
(*                                                                         *)
(* The browser runs the store on one thread: an async function runs        *)
(* without interruption from one await to the next, so every action below  *)
(* is the code between two consecutive awaits of one task.  What an        *)
(* awaited call of the hosted service, the backend or the database answers *)
(* is an input of the action that resumes the task.                        *)
(***************************************************************************)
EXTENDS Naturals, FiniteSets

\* ------------------------------------------------------------------ bounds
\* How many UI components may call login() (each awaits its own call).
MaxCallers == 2
\* How many asynchronous tasks of the store may be suspended at once.
MaxInFlight == 2

\* ------------------------------------------------------------------ values
U1 == "u1"
U2 == "u2"
Ids == {U1, U2}
Bios == {"a"}
\* AuthUser (the fields the store itself reads or that tell two records apart).
Profiles == [id : Ids, bio : Bios]
\* The JavaScript null of `user`.
Null == [id |-> "null", bio |-> "null"]
MaybeProfile == Profiles \cup {Null}

\* localStorage holds strings.  A string is told by what JSON.parse makes of it.
Absent == [kind |-> "absent", val |-> Null]
Garbage == [kind |-> "garbage", val |-> Null]
Stringify(p) == [kind |-> "json", val |-> p]
ParseOk(s) == s.kind = "json"
Parse(s) == s.val

\* Keys of localStorage / sessionStorage other than auth_user.
SbKey == "sb-ref-auth-token"
MiscKey == "theme"
StartsWithSb(k) == k = SbKey
\* RemoveSbKeys that removes nothing.
RemoveSbKeys_Keeps(keys) == keys
\* Object.keys(storage).forEach(key => key.startsWith('sb-') && removeItem(key))
RemoveSbKeys(keys) == {k \in keys : ~StartsWithSb(k)}
\* sessionStorage.clear()
ClearStorage(keys) == {}

Callers == 1..MaxCallers
NoCaller == 0

\* ------------------------------------------------ the backend-API client
\* POST /auth/login and POST /auth/register go through ApiClient._fetch.
Endpoints == {"login", "register"}
ApiIdle == [pc |-> "idle", endpoint |-> "none", status |-> 0, sent |-> 0]
\* response.status of an answer with !response.ok
ErrorStatuses == {400, 401, 409, 500}
\* errorData.error of the answer's body: a text, or none (no such field, or a
\* body that is not JSON, which _fetch reads as {}).
NoField == "none"
ErrorFields == {NoField, "Invalid credentials", "Email already registered",
                "Validation failed"}
\* `HTTP ${response.status}: ${response.statusText}`
HttpText(status) == <<"HTTP", status>>
\* A client that reports the status whatever the body says.
ErrorMessage_StatusOnly(field, status) == HttpText(status)
\* errorData.error || `HTTP ${response.status}: ${response.statusText}`
ErrorMessage(field, status) ==
    IF field # NoField THEN field ELSE HttpText(status)
\* new Error(message), and the value of a call that threw nothing.
Error(message) == [isError |-> TRUE, message |-> message]
NoError == [isError |-> FALSE, message |-> "none"]
\* error instanceof Error ? error.message : 'Login failed' (login, 225) or
\* 'Registration failed' (register, 180): the text handed to toast.error.
CatchMessage(endpoint, error) ==
    IF error.isError THEN error.message
    ELSE IF endpoint = "login" THEN "Login failed" ELSE "Registration failed"
\* The message of the TypeError that fetch() rejects with.
TransportText == "Failed to fetch"
\* new Error('Request timed out. Please try again.')
TimeoutText == "Request timed out. Please try again."

\* ------------------------------------------------------- the users table
\* The rows of from('users') as updateUser meets them: the key, a field the
\* caller edits, a field only other writers change, and the timestamp.
RowIds == Ids \cup {"u3"}
RowBios == {"a", "x"}
Categories == {"c0", "c1"}
Stamps == {"old", "new"}
RowFields == {"id", "bio", "category", "updated_at"}
Rows == [id : RowIds, bio : RowBios, category : Categories, updated_at : Stamps]
\* `data: Partial<AuthUser>`: any subset of the fields a caller may name.
PayloadFields == {"id", "bio"}
FieldValues(f) == IF f = "id" THEN RowIds ELSE RowBios
Payloads ==
    UNION { {d \in [S -> RowIds \cup RowBios] : \A f \in S : d[f] \in FieldValues(f)}
            : S \in SUBSET PayloadFields }
EmptyPayload == [f \in {} |-> "none"]
\* updData while no request is in flight.
NoRequest == [none |-> "none"]
\* { ...data, updated_at: new Date().toISOString() }
UpdateBody(data, now) ==
    [f \in DOMAIN data \cup {"updated_at"} |->
        IF f = "updated_at" THEN now ELSE data[f]]
\* A row with the fields of `body` written over it.
Overwrite(row, body) ==
    [f \in DOMAIN row |-> IF f \in DOMAIN body THEN body[f] ELSE row[f]]
\* { data: null, error }
StoreError == [id |-> "error"]
\* update(body).eq('id', key).select().single() as the table answers it: the
\* row with that key is rewritten and returned; no such row, or a new key
\* that another row holds, is an error and changes nothing.
StoreUpdate(tbl, key, body) ==
    LET hit == {r \in tbl : r.id = key} IN
    IF hit = {}
    THEN [reply |-> StoreError, table |-> tbl]
    ELSE LET r == CHOOSE x \in hit : TRUE
             n == Overwrite(r, body)
         IN IF \E o \in tbl \ {r} : o.id = n.id
            THEN [reply |-> StoreError, table |-> tbl]
            ELSE [reply |-> n, table |-> (tbl \ {r}) \cup {n}]

\* The value of `user` that the closures created by the mount effect see: the
\* effect runs once (dependency list []), so checkAuth reads the first render's
\* `user`, which is useState's initial value.
MountUser == Null

VARIABLES
    user,         \* React state `user`
    isLoading,    \* React state `isLoading`
    lsAuth,       \* localStorage['auth_user']
    lsKeys,       \* the other keys of localStorage
    ssKeys,       \* the keys of sessionStorage
    loginPromiseRef, \* loginPromiseRef.current: the caller whose call made the promise
    loginPc,      \* per caller: where the login task it started is suspended
    loginResp,    \* per caller: response.user held by apiClient.login while it installs tokens
    awaiting,     \* per caller: whose promise the caller's login() returned, still pending
                  \* (the caller resumes with its boolean in the step that settles it)
    loginReqs,    \* POST /auth/login requests sent for the callers now waiting
    checkPc,      \* checkAuth of the mount effect
    fetches,      \* fetchUserProfile tasks in flight: how many at each point
    regPc,        \* register
    regResp,      \* response.user held by register while it installs the session
    logoutPc,     \* logout
    logoutSignOut,\* how logout's signOut ended
    timerPc,      \* the callback logout hands to setTimeout
    reloadOwed,   \* logout was called and the client has not reloaded since
    updPc,        \* updateUser
    updId,        \* the key of updateUser's request in flight
    updData,      \* the body of updateUser's request in flight
    table,        \* the rows of the users table that updateUser addresses
    refPc,        \* refreshUser
    refUserNull,  \* !user as refreshUser's closure sees it
    api,          \* the _fetch of the backend-API client that is in flight
    ev            \* what the last step made observable to the callers

vars == <<user, isLoading, lsAuth, lsKeys, ssKeys, loginPromiseRef, loginPc,
          loginResp, awaiting, loginReqs, checkPc, fetches, regPc,
          regResp, logoutPc, logoutSignOut, timerPc, reloadOwed, updPc, updId,
          updData, table, refPc, refUserNull, api, ev>>

authVars == <<user, lsAuth>>
storeVars == <<lsKeys, ssKeys>>
loginVars == <<loginPromiseRef, loginPc, loginResp, awaiting, loginReqs>>
regVars == <<regPc, regResp>>
logoutVars == <<logoutPc, logoutSignOut, timerPc, reloadOwed>>
updVars == <<updPc, updId, updData, table>>
refVars == <<refPc, refUserNull>>

Ev(op) == [op |-> op]
\* A step that ends an operation, with `user` and the cache as the step found them.
Kept(op, how) == [op |-> op, how |-> how, userWas |-> user, cacheWas |-> lsAuth]

\* ------------------------------------------------------- fetchUserProfile
\* A fetchUserProfile task is suspended at getUser, at the select or at the
\* insert; after getUser it holds authUser.id.
FetchPoints == {[at |-> "getUser", id |-> "null"]}
               \cup [at : {"select", "insert"}, id : Ids]
AtGetUser == [at |-> "getUser", id |-> "null"]

\* The fetches that hold the id i.
FetchesOf(i) == fetches[[at |-> "select", id |-> i]]
                + fetches[[at |-> "insert", id |-> i]]
NumFetches == fetches[AtGetUser] + FetchesOf(U1) + FetchesOf(U2)

Bool2Nat(b) == IF b THEN 1 ELSE 0
\* The tasks suspended at an await, and the pending timer.
InFlight == Bool2Nat(checkPc = "getSession")
            + Cardinality({c \in Callers : loginPc[c] # "idle"})
            + Bool2Nat(regPc # "idle")
            + Bool2Nat(logoutPc # "idle")
            + Bool2Nat(timerPc # "none")
            + Bool2Nat(updPc # "idle")
            + Bool2Nat(refPc # "idle")
            + NumFetches

\* The state of a freshly loaded page over the storage the browser kept.
Fresh(la, lk, sk, e) ==
    /\ user = Null
    /\ isLoading = TRUE
    /\ lsAuth = la
    /\ lsKeys = lk
    /\ ssKeys = sk
    /\ loginPromiseRef = NoCaller
    /\ loginPc = [c \in Callers |-> "idle"]
    /\ loginResp = [c \in Callers |-> Null]
    /\ awaiting = [c \in Callers |-> NoCaller]
    /\ loginReqs = 0
    /\ checkPc = "getSession"
    /\ fetches = [p \in FetchPoints |-> 0]
    /\ regPc = "idle"
    /\ regResp = Null
    /\ logoutPc = "idle"
    /\ logoutSignOut = "none"
    /\ timerPc = "none"
    /\ reloadOwed = FALSE
    /\ updPc = "idle"
    /\ updId = "null"
    /\ updData = NoRequest
    /\ table = {}
    /\ refPc = "idle"
    /\ refUserNull = FALSE
    /\ api = ApiIdle
    /\ ev = Ev(e)

Init ==
    \E la \in {Absent, Garbage} \cup {Stringify(p) : p \in Profiles},
       k \in {{}, {SbKey}} :
        Fresh(la, k, IF k = {} THEN {} ELSE {SbKey, MiscKey}, "mount")


\* The page as window.location.reload() leaves it: every task, timer and piece
\* of React state is gone, the storage stays, and the mount effect runs again.
Reloaded(la, lk, sk) ==
    /\ user' = Null
    /\ isLoading' = TRUE
    /\ lsAuth' = la
    /\ lsKeys' = lk
    /\ ssKeys' = sk
    /\ loginPromiseRef' = NoCaller
    /\ loginPc' = [c \in Callers |-> "idle"]
    /\ loginResp' = [c \in Callers |-> Null]
    /\ awaiting' = [c \in Callers |-> NoCaller]
    /\ loginReqs' = 0
    /\ checkPc' = "getSession"
    /\ fetches' = [p \in FetchPoints |-> 0]
    /\ regPc' = "idle"
    /\ regResp' = Null
    /\ logoutPc' = "idle"
    /\ logoutSignOut' = "none"
    /\ timerPc' = "none"
    /\ reloadOwed' = FALSE
    /\ updPc' = "idle"
    /\ updId' = "null"
    /\ updData' = NoRequest
    /\ table' = table
    /\ refPc' = "idle"
    /\ refUserNull' = FALSE
    /\ api' = ApiIdle
    /\ ev' = [op |-> "reload", dirty |-> (lsAuth # Absent \/ SbKey \in lsKeys)]

\* StoreProfile without the write to localStorage.
StoreProfile_NoCache(p) ==
    /\ user' = p
    /\ UNCHANGED lsAuth

\* localStorage.setItem('auth_user', JSON.stringify(p)); setUser(p)
StoreProfile(p) ==
    /\ lsAuth' = Stringify(p)
    /\ user' = p

\* localStorage.removeItem('auth_user'); setUser(null)
ClearProfile ==
    /\ lsAuth' = Absent
    /\ user' = Null

\* A new fetchUserProfile task, suspended at supabase.auth.getUser(token).
SpawnFetch(f) == [f EXCEPT ![AtGetUser] = @ + 1]
MoveFetch(f, from, to) == [f EXCEPT ![from] = @ - 1, ![to] = @ + 1]
EndFetch(f, from) == [f EXCEPT ![from] = @ - 1]

\* ------------------------------------------------------------- mount effect
\* checkAuth resumes after supabase.auth.getSession().
CheckAuthSession ==
    /\ checkPc = "getSession"
    /\ checkPc' = "done"
    /\ \/ \* a session with an access token: await fetchUserProfile(token)
          /\ fetches' = SpawnFetch(fetches)
          /\ ev' = Ev("step")
          /\ UNCHANGED <<authVars, isLoading>>
       \/ \* no session: if (!user) { removeItem; setUser(null) }; finally
          /\ IF MountUser = Null THEN ClearProfile ELSE UNCHANGED authVars
          /\ isLoading' = FALSE
          /\ ev' = Kept("checkAuthNoSession", "noSession")
          /\ UNCHANGED fetches
       \/ \* getSession throws: catch, finally
          /\ isLoading' = FALSE
          /\ ev' = Ev("step")
          /\ UNCHANGED <<authVars, fetches>>
    /\ UNCHANGED <<storeVars, loginVars, regVars, logoutVars, updVars, refVars, api>>

\* The onAuthStateChange handler.  The hosted client notifies after it has
\* stored (SIGNED_IN, TOKEN_REFRESHED) or removed (SIGNED_OUT) its session.
AuthEvents == {"SIGNED_IN", "TOKEN_REFRESHED", "SIGNED_OUT", "USER_UPDATED"}

\* A handler that knows SIGNED_IN and SIGNED_OUT only (the third branch of
\* the handler left out).
OnAuthStateChange_NoRefresh(event, token) ==
    /\ IF event = "SIGNED_IN" /\ token
       THEN /\ InFlight < MaxInFlight
            /\ fetches' = SpawnFetch(fetches)
            /\ lsKeys' = lsKeys \cup {SbKey}
            /\ UNCHANGED <<authVars, isLoading>>
       ELSE IF event = "SIGNED_OUT"
       THEN /\ ClearProfile
            /\ isLoading' = FALSE
            /\ lsKeys' = lsKeys \ {SbKey}
            /\ UNCHANGED fetches
       ELSE UNCHANGED <<authVars, isLoading, lsKeys, fetches>>
    /\ UNCHANGED <<ssKeys, loginVars, checkPc, regVars, logoutVars, updVars, refVars, api>>

\* The handler called with (event, session); `token` is session?.access_token.
OnAuthStateChange(event, token) ==
    /\ IF event \in {"SIGNED_IN", "TOKEN_REFRESHED"} /\ token
       THEN \* await fetchUserProfile(session.access_token)
            /\ InFlight < MaxInFlight
            /\ fetches' = SpawnFetch(fetches)
            /\ lsKeys' = lsKeys \cup {SbKey}
            /\ UNCHANGED <<authVars, isLoading>>
       ELSE IF event = "SIGNED_OUT"
       THEN /\ ClearProfile
            /\ isLoading' = FALSE
            /\ lsKeys' = lsKeys \ {SbKey}
            /\ UNCHANGED fetches
       ELSE \* any other event, or a sign-in without a token
            UNCHANGED <<authVars, isLoading, lsKeys, fetches>>
    /\ UNCHANGED <<ssKeys, loginVars, checkPc, regVars, logoutVars, updVars, refVars, api>>

AuthStateChange ==
    \E event \in AuthEvents, token \in BOOLEAN :
        /\ OnAuthStateChange(event, token)
        /\ ev' = IF event = "SIGNED_OUT" THEN Ev("signedOut") ELSE Ev("step")

\* ------------------------------------------------------- fetchUserProfile
FetchFrame ==
    UNCHANGED <<storeVars, loginVars, checkPc, regVars, logoutVars, updVars, refVars, api>>

\* fetchUserProfile as the second copy of the provider ends a failure, with
\* setUser(null).
FetchFail_ClearsUser(here) ==
    /\ fetches' = EndFetch(fetches, here)
    /\ isLoading' = FALSE
    /\ user' = Null
    /\ UNCHANGED lsAuth
    /\ ev' = Kept("fetchFailed", "fetch")

\* fetchUserProfile ends without a profile: the warning or the catch writes
\* the console only, then finally { setIsLoading(false) }.
FetchFail(here) ==
    /\ fetches' = EndFetch(fetches, here)
    /\ isLoading' = FALSE
    /\ UNCHANGED authVars
    /\ ev' = Kept("fetchFailed", "fetch")

\* fetchUserProfile ends with a profile: setItem, setUser, finally.
FetchAdopt(here, p, how) ==
    /\ StoreProfile(p)
    /\ fetches' = EndFetch(fetches, here)
    /\ isLoading' = FALSE
    /\ ev' = [op |-> "fetchAdopted", how |-> how, id |-> here.id]

\* resumes after supabase.auth.getUser(token)
FetchGetUser ==
    /\ fetches[AtGetUser] > 0
    /\ \/ \* authUser
          \E i \in Ids :
            /\ fetches' = MoveFetch(fetches, AtGetUser, [at |-> "select", id |-> i])
            /\ ev' = Ev("step")
            /\ UNCHANGED <<authVars, isLoading>>
       \/ \* no user in the answer, or getUser throws: finally
          FetchFail(AtGetUser)
    /\ FetchFrame

\* A missing row as the third copy of the provider takes it: no insert, the
\* fetch ends without a profile.
FetchMissing_NoInsert(here) ==
    /\ fetches' = EndFetch(fetches, here)
    /\ isLoading' = FALSE
    /\ UNCHANGED authVars
    /\ ev' = [op |-> "fetchRowMissing", id |-> here.id]

\* if (error || !profile): insert({id: authUser.id, ...}).select().single()
FetchMissing(here) ==
    /\ fetches' = MoveFetch(fetches, here, [at |-> "insert", id |-> here.id])
    /\ ev' = [op |-> "fetchRowMissing", id |-> here.id]
    /\ UNCHANGED <<authVars, isLoading>>

\* resumes after from('users').select('*').eq('id', authUser.id).single()
FetchSelect ==
    \E i \in Ids :
        LET here == [at |-> "select", id |-> i] IN
        /\ fetches[here] > 0
        /\ \/ \* the row
              \E p \in Profiles :
                /\ p.id = i
                /\ FetchAdopt(here, p, "select")
           \/ \* error or no row: insert one
              FetchMissing(here)
           \/ \* the query throws: catch, finally
              FetchFail(here)
        /\ FetchFrame

\* resumes after from('users').insert({id: authUser.id, ...}).select().single()
FetchInsert ==
    \E i \in Ids :
        LET here == [at |-> "insert", id |-> i] IN
        /\ fetches[here] > 0
        /\ \/ \* the new row
              \E p \in Profiles :
                /\ p.id = i
                /\ FetchAdopt(here, p, "insert")
           \/ \* insertError, no row, or the insert throws
              FetchFail(here)
        /\ FetchFrame

\* ------------------------------------------------------------------- login
LoginFrame ==
    UNCHANGED <<ssKeys, checkPc, regVars, logoutVars, updVars, refVars, api>>

\* login(email, password): every caller types credentials of its own.
Credentials(c) == c
\* The credentials that pending login tasks have handed to apiClient.login.
CredentialsChecked == {Credentials(t) : t \in {d \in Callers : loginPc[d] # "idle"}}

\* login() without the check of loginPromiseRef.current: every call starts a task.
LoginCall_NoDedupe(c) ==
    /\ awaiting[c] = NoCaller
    /\ InFlight < MaxInFlight
    /\ loginPc[c] = "idle"
    /\ isLoading' = TRUE
    /\ loginPc' = [loginPc EXCEPT ![c] = "apiFetch"]
    /\ loginPromiseRef' = c
    /\ awaiting' = [awaiting EXCEPT ![c] = c]
    /\ loginReqs' = IF \A d \in Callers : awaiting[d] = NoCaller
                    THEN 1 ELSE loginReqs + 1
    /\ ev' = Ev("step")
    /\ UNCHANGED <<authVars, lsKeys, loginResp, fetches>>
    /\ LoginFrame

\* login(): hand out the in-flight promise, or start the task and suspend it
\* in apiClient.login at the POST /auth/login.
LoginCall(c) ==
    /\ awaiting[c] = NoCaller
    /\ IF loginPromiseRef # NoCaller
       THEN /\ awaiting' = [awaiting EXCEPT ![c] = loginPromiseRef]
            /\ UNCHANGED <<isLoading, loginPromiseRef, loginPc, loginReqs>>
       ELSE /\ InFlight < MaxInFlight
            /\ loginPc[c] = "idle"
            /\ isLoading' = TRUE
            /\ loginPc' = [loginPc EXCEPT ![c] = "apiFetch"]
            /\ loginPromiseRef' = c
            /\ awaiting' = [awaiting EXCEPT ![c] = c]
            /\ loginReqs' = IF \A d \in Callers : awaiting[d] = NoCaller
                            THEN 1 ELSE loginReqs + 1
    /\ ev' = Ev("step")
    /\ UNCHANGED <<authVars, lsKeys, loginResp, fetches>>
    /\ LoginFrame

\* A finally block that forgets loginPromiseRef.current = null.
LoginSettle_KeepsSlot(c, res, hadUser) ==
    /\ isLoading' = FALSE
    /\ UNCHANGED loginPromiseRef
    /\ loginPc' = [loginPc EXCEPT ![c] = "idle"]
    /\ loginResp' = [loginResp EXCEPT ![c] = Null]
    /\ awaiting' = [d \in Callers |-> IF awaiting[d] = c THEN NoCaller ELSE awaiting[d]]
    /\ ev' = [op |-> "loginResolved", res |-> res, hadUser |-> hadUser,
              wasAuth |-> (user # Null),
              got |-> [d \in Callers |-> IF awaiting[d] = c THEN res ELSE "none"],
              reqs |-> loginReqs]
    /\ loginReqs' = IF \A d \in Callers : awaiting[d] \in {c, NoCaller}
                    THEN 0 ELSE loginReqs

\* The promise of caller c's task settles with res: the finally block, then
\* every caller that holds the promise resumes.
LoginSettle(c, res, hadUser) ==
    /\ isLoading' = FALSE
    /\ loginPromiseRef' = NoCaller
    /\ loginPc' = [loginPc EXCEPT ![c] = "idle"]
    /\ loginResp' = [loginResp EXCEPT ![c] = Null]
    /\ awaiting' = [d \in Callers |-> IF awaiting[d] = c THEN NoCaller ELSE awaiting[d]]
    /\ ev' = [op |-> "loginResolved", res |-> res, hadUser |-> hadUser,
              wasAuth |-> (user # Null),
              got |-> [d \in Callers |-> IF awaiting[d] = c THEN res ELSE "none"],
              reqs |-> loginReqs]
    /\ loginReqs' = IF \A d \in Callers : awaiting[d] \in {c, NoCaller}
                    THEN 0 ELSE loginReqs

\* LoginFail that returns false and leaves the user and the cache alone.
LoginFail_KeepsStale(c, hadUser) ==
    /\ UNCHANGED authVars
    /\ LoginSettle(c, "false", hadUser)

\* setUser(null); localStorage.removeItem('auth_user'); return false
LoginFail(c, hadUser) ==
    /\ ClearProfile
    /\ LoginSettle(c, "false", hadUser)

\* lines 200-208: the response is in hand
LoginGotResponse(c, u) ==
    IF u # Null
    THEN /\ StoreProfile(u)
         /\ loginPc' = [loginPc EXCEPT ![c] = "getSession"]
         /\ loginResp' = [loginResp EXCEPT ![c] = Null]
         /\ ev' = Ev("step")
         /\ UNCHANGED <<isLoading, loginPromiseRef, awaiting, loginReqs>>
    ELSE LoginFail(c, FALSE)

\* apiClient.login resumes after _fetch('/auth/login')
LoginResponse(c) ==
    /\ loginPc[c] = "apiFetch"
    /\ \/ \* _fetch throws: network error, non-2xx, timeout
          LoginFail(c, FALSE)
       \/ \* a body with access_token and refresh_token: await setSession
          \E u \in MaybeProfile :
            /\ loginPc' = [loginPc EXCEPT ![c] = "apiSetSession"]
            /\ loginResp' = [loginResp EXCEPT ![c] = u]
            /\ ev' = Ev("step")
            /\ UNCHANGED <<authVars, isLoading, loginPromiseRef, awaiting, loginReqs>>
       \/ \* a body without tokens
          \E u \in MaybeProfile : LoginGotResponse(c, u)
    /\ UNCHANGED <<lsKeys, fetches>>
    /\ LoginFrame

\* apiClient.login resumes after sb.auth.setSession(tokens)
LoginSetSession(c) ==
    /\ loginPc[c] = "apiSetSession"
    /\ \/ \* installed: the hosted client stores the session
          /\ lsKeys' = lsKeys \cup {SbKey}
          /\ LoginGotResponse(c, loginResp[c])
       \/ \* refused: { error }, which apiClient.login does not read
          /\ UNCHANGED lsKeys
          /\ LoginGotResponse(c, loginResp[c])
       \/ \* setSession throws: apiClient.login rethrows, login catches
          /\ UNCHANGED lsKeys
          /\ LoginFail(c, loginResp[c] # Null)
    /\ UNCHANGED fetches
    /\ LoginFrame

\* login resumes after supabase.auth.getSession()
LoginGetSession(c) ==
    /\ loginPc[c] = "getSession"
    /\ \/ \* a token: fetchUserProfile(token) in the background
          fetches' = SpawnFetch(fetches)
       \/ \* no session, or getSession throws
          UNCHANGED fetches
    /\ LoginSettle(c, "true", TRUE)
    /\ UNCHANGED <<authVars, lsKeys>>
    /\ LoginFrame

\* ---------------------------------------------------------------- register
RegisterFrame ==
    UNCHANGED <<ssKeys, loginVars, checkPc, fetches, logoutVars, updVars, refVars, api>>

RegisterCall ==
    /\ regPc = "idle"
    /\ InFlight < MaxInFlight
    /\ isLoading' = TRUE
    /\ regPc' = "fetch"
    /\ ev' = Ev("step")
    /\ UNCHANGED <<authVars, lsKeys, regResp>>
    /\ RegisterFrame

\* lines 171-177 and the finally block; `session` tells how the session of
\* the response fared.
RegisterFinish(u, session) ==
    /\ IF u # Null THEN StoreProfile(u) ELSE UNCHANGED authVars
    /\ isLoading' = FALSE
    /\ regPc' = "idle"
    /\ regResp' = Null
    /\ ev' = [op |-> "registerResolved", hadUser |-> (u # Null),
              returned |-> u, session |-> session]

\* A catch that clears the profile, as the catch of login does.
RegisterReject_Clears(how) ==
    /\ ClearProfile
    /\ isLoading' = FALSE
    /\ regPc' = "idle"
    /\ regResp' = Null
    /\ ev' = Kept("registerRejected", how)

\* catch { toast.error(message); throw error } finally { setIsLoading(false) }
RegisterReject(how) ==
    /\ UNCHANGED authVars
    /\ isLoading' = FALSE
    /\ regPc' = "idle"
    /\ regResp' = Null
    /\ ev' = Kept("registerRejected", how)

\* register resumes after apiClient.register(data)
RegisterResponse ==
    /\ regPc = "fetch"
    /\ \/ \* the request fails (network, timeout, a non-2xx answer)
          RegisterReject("request")
       \/ \* a response with a session: await supabase.auth.setSession
          \E u \in MaybeProfile :
            /\ regPc' = "setSession"
            /\ regResp' = u
            /\ ev' = Ev("step")
            /\ UNCHANGED <<authVars, isLoading>>
       \/ \* a response without session
          \E u \in MaybeProfile : RegisterFinish(u, "absent")
    /\ UNCHANGED lsKeys
    /\ RegisterFrame

\* A setSession that throws, without the inner try/catch of lines 161-168:
\* the error reaches the outer catch.
RegisterSessionThrew_Escapes ==
    RegisterReject("setSession")

\* catch (sessionError) { console.warn(...) }
RegisterSessionThrew ==
    RegisterFinish(regResp, "threw")

\* register resumes after supabase.auth.setSession(response.session)
RegisterSetSession ==
    /\ regPc = "setSession"
    /\ \/ \* installed
          /\ lsKeys' = lsKeys \cup {SbKey}
          /\ RegisterFinish(regResp, "installed")
       \/ \* { error: sessionError }: warned, not fatal
          /\ UNCHANGED lsKeys
          /\ RegisterFinish(regResp, "refused")
       \/ \* setSession throws
          /\ UNCHANGED lsKeys
          /\ RegisterSessionThrew
    /\ RegisterFrame

\* ------------------------------------------------------------------ logout
LogoutFrame ==
    UNCHANGED <<isLoading, loginVars, checkPc, fetches, regVars, updVars, refVars, api>>

LogoutCall ==
    /\ logoutPc = "idle"
    /\ timerPc = "none"
    /\ InFlight < MaxInFlight
    /\ logoutPc' = "signOut"
    /\ reloadOwed' = TRUE
    /\ ev' = Ev("step")
    /\ UNCHANGED <<authVars, storeVars, logoutSignOut, timerPc>>
    /\ LogoutFrame

\* lines 260-289: clear the state and the storage, schedule the reload, return
LogoutCleanup(signOut) ==
    /\ ClearProfile
    /\ lsKeys' = RemoveSbKeys(lsKeys)
    /\ ssKeys' = ClearStorage(RemoveSbKeys(ssKeys))
    /\ logoutPc' = "idle"
    /\ logoutSignOut' = "none"
    /\ timerPc' = "scheduled"
    /\ ev' = [op |-> "logoutReturned", signOut |-> signOut,
              wasAuth |-> (user # Null), hadSb |-> (SbKey \in lsKeys \cup ssKeys)]
    /\ UNCHANGED reloadOwed

\* LogoutSignOut whose signOut, when it throws, ends logout before the clearing.
LogoutSignOut_ThrowEscapes ==
    /\ logoutPc = "signOut"
    /\ \/ /\ logoutPc' = "setSession"
          /\ logoutSignOut' = "ok"
          /\ lsKeys' = lsKeys \ {SbKey}
          /\ ev' = Ev("step")
          /\ UNCHANGED <<authVars, ssKeys, timerPc, reloadOwed>>
       \/ /\ logoutPc' = "setSession"
          /\ logoutSignOut' = "error"
          /\ ev' = Ev("step")
          /\ UNCHANGED <<authVars, storeVars, timerPc, reloadOwed>>
       \/ /\ logoutPc' = "idle"
          /\ logoutSignOut' = "none"
          /\ timerPc' = "scheduled"
          /\ ev' = [op |-> "logoutReturned", signOut |-> "threw",
                    wasAuth |-> (user # Null), hadSb |-> (SbKey \in lsKeys \cup ssKeys)]
          /\ UNCHANGED <<authVars, storeVars, reloadOwed>>
    /\ LogoutFrame

\* logout resumes after supabase.auth.signOut()
LogoutSignOut ==
    /\ logoutPc = "signOut"
    /\ \/ \* signed out: the hosted client drops its stored session
          /\ logoutPc' = "setSession"
          /\ logoutSignOut' = "ok"
          /\ lsKeys' = lsKeys \ {SbKey}
          /\ ev' = Ev("step")
          /\ UNCHANGED <<authVars, ssKeys, timerPc, reloadOwed>>
       \/ \* { error }
          /\ logoutPc' = "setSession"
          /\ logoutSignOut' = "error"
          /\ ev' = Ev("step")
          /\ UNCHANGED <<authVars, storeVars, timerPc, reloadOwed>>
       \/ \* signOut throws: the inner catch
          LogoutCleanup("threw")
    /\ LogoutFrame

\* logout resumes after supabase.auth.setSession(null), however it ended
LogoutSetSession ==
    /\ logoutPc = "setSession"
    /\ LogoutCleanup(logoutSignOut)
    /\ LogoutFrame

\* 500 ms later the callback starts and suspends at supabase.auth.signOut()
TimerFire ==
    /\ timerPc = "scheduled"
    /\ timerPc' = "signOut"
    /\ ev' = Ev("step")
    /\ UNCHANGED <<authVars, storeVars, logoutPc, logoutSignOut, reloadOwed>>
    /\ LogoutFrame

\* An await of the callback throws: nothing catches it, the callback ends.
TimerAbort ==
    /\ timerPc' = "none"
    /\ ev' = Ev("timerAborted")
    /\ UNCHANGED <<authVars, storeVars, logoutPc, logoutSignOut, reloadOwed>>
    /\ LogoutFrame

\* the callback resumes after supabase.auth.signOut()
TimerSignOut ==
    /\ timerPc = "signOut"
    /\ \/ \* signed out
          /\ timerPc' = "setSession"
          /\ lsKeys' = lsKeys \ {SbKey}
          /\ ev' = Ev("step")
          /\ UNCHANGED <<authVars, ssKeys, logoutPc, logoutSignOut, reloadOwed>>
          /\ LogoutFrame
       \/ \* { error }
          /\ timerPc' = "setSession"
          /\ ev' = Ev("step")
          /\ UNCHANGED <<authVars, storeVars, logoutPc, logoutSignOut, reloadOwed>>
          /\ LogoutFrame
       \/ \* signOut throws
          TimerAbort

\* TimerReload that reloads without clearing again.
TimerReload_NoSecondClear ==
    Reloaded(lsAuth, lsKeys, ssKeys)

\* lines 280-288: the second clearing, then window.location.reload()
TimerReload ==
    Reloaded(Absent, RemoveSbKeys(lsKeys), ClearStorage(RemoveSbKeys(ssKeys)))

\* the callback resumes after supabase.auth.setSession(null)
TimerSetSession ==
    /\ timerPc = "setSession"
    /\ \/ \* it resolves, with or without { error }
          TimerReload
       \/ \* it throws
          TimerAbort

\* -------------------------------------------------------------- updateUser
UpdateFrame ==
    UNCHANGED <<isLoading, storeVars, loginVars, checkPc, fetches, regVars, logoutVars, refVars, api>>

\* What a step of updateUser shows: how it ended, what it found, the body it
\* had sent and the row the store returned.
UpdEv(op, how, reply) ==
    [op |-> op, how |-> how, userWas |-> user, cacheWas |-> lsAuth,
     sent |-> updData, returned |-> reply, tableWas |-> table]

\* A key taken from the payload when the payload names one.
UpdateKey_TrustsCaller(data) ==
    IF "id" \in DOMAIN data THEN data.id ELSE user.id

\* .eq('id', user.id)
UpdateKey(data) == user.id

\* updateUser without its first line: the request goes out for a null user.
UpdateUserCall_NoGuard(data, now) ==
    /\ updPc = "idle"
    /\ InFlight < MaxInFlight
    /\ updPc' = "update"
    /\ updId' = UpdateKey(data)
    /\ updData' = UpdateBody(data, now)
    /\ ev' = [op |-> "updateSent", data |-> data, me |-> user.id]
    /\ UNCHANGED <<authVars, table>>
    /\ UpdateFrame

\* updateUser(data) up to its await; `now` is what new Date() reads.
UpdateUserCall(data, now) ==
    /\ updPc = "idle"
    /\ IF user = Null
       THEN \* throw new Error('No user logged in'): catch, toast, rethrow
            /\ ev' = UpdEv("updateRejected", "noUser", StoreError)
            /\ UNCHANGED updVars
       ELSE \* update({...data, updated_at}).eq('id', user.id).select().single()
            /\ InFlight < MaxInFlight
            /\ updPc' = "update"
            /\ updId' = UpdateKey(data)
            /\ updData' = UpdateBody(data, now)
            /\ ev' = [op |-> "updateSent", data |-> data, me |-> user.id]
            /\ UNCHANGED table
    /\ UNCHANGED authVars
    /\ UpdateFrame

\* A catch that drops the profile when the store refuses the update.
UpdateReject_Clears ==
    /\ ClearProfile
    /\ ev' = UpdEv("updateRejected", "store", StoreError)

\* if (error) throw new Error('Failed to update profile'); catch: toast, rethrow
UpdateReject ==
    /\ UNCHANGED authVars
    /\ ev' = UpdEv("updateRejected", "store", StoreError)

\* A client-side merge of the payload into the profile in memory.
UpdateAdopt_Merges(reply) ==
    /\ StoreProfile(Overwrite(user, updData))
    /\ ev' = UpdEv("updateResolved", "store", reply)

\* localStorage.setItem('auth_user', JSON.stringify(updatedProfile));
\* setUser(updatedProfile)
UpdateAdopt(reply) ==
    /\ StoreProfile(reply)
    /\ ev' = UpdEv("updateResolved", "store", reply)

\* updateUser resumes with { data: updatedProfile, error } of its request.
UpdateUserResponse(reply) ==
    /\ updPc = "update"
    /\ updPc' = "idle"
    /\ updId' = "null"
    /\ updData' = NoRequest
    /\ IF reply = StoreError THEN UpdateReject ELSE UpdateAdopt(reply)
    /\ UpdateFrame

\* updateUser(data) of a page; the store's answer is left open below.
UpdateUserStart ==
    UpdateUserCall(EmptyPayload, "new")

\* The store answers: an error, or any row.
UpdateUserAnswer ==
    /\ \E reply \in {StoreError} \cup Profiles : UpdateUserResponse(reply)
    /\ UNCHANGED table

\* ------------------------------------------------------------- refreshUser
RefreshFrame ==
    UNCHANGED <<isLoading, storeVars, loginVars, checkPc, regVars, logoutVars, updVars, api>>

RefreshUserCall ==
    /\ refPc = "idle"
    /\ InFlight < MaxInFlight
    /\ refPc' = "getSession"
    /\ refUserNull' = (user = Null)
    /\ ev' = Ev("step")
    /\ UNCHANGED <<authVars, fetches>>
    /\ RefreshFrame

\* A refreshUser that takes a missing session for a logout.
RefreshNoSession_ForcesLogout ==
    ClearProfile

\* const storedUser = localStorage.getItem('auth_user');
\* if (storedUser && !user) { try { setUser(JSON.parse(storedUser)) }
\*                            catch { localStorage.removeItem('auth_user') } }
RefreshNoSession ==
    IF lsAuth # Absent /\ refUserNull
    THEN IF ParseOk(lsAuth)
         THEN /\ user' = Parse(lsAuth)
              /\ UNCHANGED lsAuth
         ELSE /\ lsAuth' = Absent
              /\ UNCHANGED user
    ELSE UNCHANGED authVars

\* refreshUser resumes after supabase.auth.getSession()
RefreshUserSession ==
    /\ refPc = "getSession"
    /\ refPc' = "idle"
    /\ refUserNull' = FALSE
    /\ \/ \* a session: await fetchUserProfile(token)
          /\ fetches' = SpawnFetch(fetches)
          /\ ev' = Ev("step")
          /\ UNCHANGED authVars
       \/ \* no session
          /\ RefreshNoSession
          /\ ev' = Kept("refreshResolved", "noSession")
          /\ UNCHANGED fetches
       \/ \* getSession throws: catch { console.error }
          /\ ev' = Kept("refreshResolved", "threw")
          /\ UNCHANGED <<authVars, fetches>>
    /\ RefreshFrame

Next ==
    \/ CheckAuthSession
    \/ AuthStateChange
    \/ FetchGetUser
    \/ FetchSelect
    \/ FetchInsert
    \/ \E c \in Callers : LoginCall(c)
    \/ \E c \in Callers : LoginResponse(c)
    \/ \E c \in Callers : LoginSetSession(c)
    \/ \E c \in Callers : LoginGetSession(c)
    \/ RegisterCall
    \/ RegisterResponse
    \/ RegisterSetSession
    \/ LogoutCall
    \/ LogoutSignOut
    \/ LogoutSetSession
    \/ TimerFire
    \/ TimerSignOut
    \/ TimerSetSession
    \/ UpdateUserStart
    \/ UpdateUserAnswer
    \/ RefreshUserCall
    \/ RefreshUserSession

Spec == Init /\ [][Next]_vars

\* ------------------------------------------------- session notifications
\* The mount effect alone: checkAuth, the subscription and the fetches they
\* start, with every notification recorded as it came.
AuthNotification ==
    \E event \in AuthEvents, token \in BOOLEAN :
        /\ OnAuthStateChange(event, token)
        /\ ev' = [op |-> "notified", event |-> event, token |-> token,
                  userWas |-> user, cacheWas |-> lsAuth,
                  fetchesWas |-> fetches[AtGetUser]]

NextNotify ==
    \/ CheckAuthSession
    \/ AuthNotification
    \/ FetchGetUser
    \/ FetchSelect
    \/ FetchInsert

SpecNotify == Init /\ [][NextNotify]_vars

\* ------------------------------------------------- ApiClient._fetch alone
\* _fetch touches nothing of the store, so it is followed here from any
\* freshly loaded page, one invocation at a time.
InitFetch == Init

ApiFrame ==
    UNCHANGED <<authVars, isLoading, storeVars, loginVars, checkPc, fetches,
                regVars, logoutVars, updVars, refVars>>

\* _fetch settles: `thrown` is the Error it throws, or NoError.
ApiEnded(how, field, thrown) ==
    /\ api' = ApiIdle
    /\ ev' = [op |-> "apiEnded", endpoint |-> api.endpoint, how |-> how,
              status |-> api.status, field |-> field, thrown |-> thrown,
              sent |-> api.sent]
    /\ ApiFrame

\* _fetch(endpoint, options): the timer is armed and the request sent.
ApiCall(endpoint) ==
    /\ api.pc = "idle"
    /\ api' = [pc |-> "fetch", endpoint |-> endpoint, status |-> 0,
               sent |-> api.sent + 1]
    /\ ev' = Ev("step")
    /\ ApiFrame

\* fetch() resolves: clearTimeout(timer), then the body of a 2xx answer, or
\* await response.json() of any other.
ApiResponse ==
    /\ api.pc = "fetch"
    /\ \/ \* response.ok
          ApiEnded("ok", NoField, NoError)
       \/ \* !response.ok
          \E status \in ErrorStatuses :
            /\ api' = [api EXCEPT !.pc = "errorBody", !.status = status]
            /\ ev' = Ev("step")
            /\ ApiFrame

\* resumes after response.json().catch(() => ({})): throw new Error(...)
ApiErrorBody ==
    /\ api.pc = "errorBody"
    /\ \E field \in ErrorFields :
         ApiEnded("http", field, Error(ErrorMessage(field, api.status)))

\* fetch() rejects by itself: no network, DNS, connection reset.
ApiTransportError ==
    /\ api.pc = "fetch"
    /\ ApiEnded("transport", NoField, Error(TransportText))

\* The timer set at line 40 fires before fetch() has settled:
\* controller.abort(), fetch() rejects with an AbortError, line 60 rethrows.
ApiTimeout ==
    /\ api.pc = "fetch"
    /\ ApiEnded("timeout", NoField, Error(TimeoutText))

NextFetch ==
    \/ \E e \in Endpoints : ApiCall(e)
    \/ ApiResponse
    \/ ApiErrorBody
    \/ ApiTransportError
    \/ ApiTimeout

SpecFetch == InitFetch /\ [][NextFetch]_vars

\* ------------------------------------------- updateUser against the table
\* A page at rest (the mount effect done, nothing in flight) with the users
\* table behind it.  The profile in memory, when there is one, is the cached
\* one; other writers may have changed its row since it was read.
StoredRows == {r \in Rows : r.id \in Ids /\ r.updated_at = "old"}
Tables == {t \in SUBSET StoredRows : \A r, o \in t : r.id = o.id => r = o}
InitUpdate ==
    /\ user \in {Null} \cup StoredRows
    /\ lsAuth = IF user = Null THEN Absent ELSE Stringify(user)
    /\ table \in Tables
    /\ isLoading = FALSE
    /\ lsKeys = {SbKey}
    /\ ssKeys = {}
    /\ loginPromiseRef = NoCaller
    /\ loginPc = [c \in Callers |-> "idle"]
    /\ loginResp = [c \in Callers |-> Null]
    /\ awaiting = [c \in Callers |-> NoCaller]
    /\ loginReqs = 0
    /\ checkPc = "done"
    /\ fetches = [p \in FetchPoints |-> 0]
    /\ regPc = "idle"
    /\ regResp = Null
    /\ logoutPc = "idle"
    /\ logoutSignOut = "none"
    /\ timerPc = "none"
    /\ reloadOwed = FALSE
    /\ updPc = "idle"
    /\ updId = "null"
    /\ updData = NoRequest
    /\ refPc = "idle"
    /\ refUserNull = FALSE
    /\ api = ApiIdle
    /\ ev = Ev("mount")

\* updateUser(data) with any payload.
UpdateUserSend ==
    \E data \in Payloads : UpdateUserCall(data, "new")

\* The store applies the request and answers, or the request fails on its
\* way and the table stays as it is.
UpdateUserStore ==
    \/ LET out == StoreUpdate(table, updId, updData) IN
         /\ UpdateUserResponse(out.reply)
         /\ table' = out.table
    \/ /\ UpdateUserResponse(StoreError)
       /\ UNCHANGED table

NextUpdate ==
    \/ UpdateUserSend
    \/ UpdateUserStore

SpecUpdate == InitUpdate /\ [][NextUpdate]_vars


\* ------------------------------------------------------------------ claims
NoSbKey(keys) == \A k \in keys : ~StartsWithSb(k)
\* The step that ended the operation changed neither `user` nor the cache.
LeftAlone == user = ev.userWas /\ lsAuth = ev.cacheWas
CacheIsUser == ParseOk(lsAuth) /\ Parse(lsAuth) = user
LoginResolved(res) == ev.op = "loginResolved" /\ ev.res = res

\* C1: while a login is pending, the callers that call login() share one
\* backend request (every waiting caller waits for a task that is suspended,
\* and one POST /auth/login has been sent since the group began), and when
\* the login resolves the whole group resumes, every caller with the boolean
\* of the call that started it.
C1_OneRequestPerGroup ==
    /\ (\E c \in Callers : awaiting[c] # NoCaller) => loginReqs = 1
    /\ \A c \in Callers : awaiting[c] # NoCaller => loginPc[awaiting[c]] # "idle"
    /\ ev.op = "loginResolved" =>
         /\ \A c \in Callers : awaiting[c] = NoCaller
         /\ \A c \in Callers : ev.got[c] \in {"none", ev.res}
\* Every caller has called login() in one group, and the group has resolved.
C1_Witness ==
    /\ ev.op = "loginResolved"
    /\ ev.reqs = 1
    /\ \A c \in Callers : ev.got[c] = ev.res

\* C2: when login resolves, its boolean is true exactly when the backend
\* response contained a user.
C2_TrueIffResponseUser ==
    ev.op = "loginResolved" => ((ev.res = "true") <=> ev.hadUser)

\* C3: at the moment login resolves true, the user is set and the cached
\* profile is the in-memory user.
C3_TrueMeansAuthenticated ==
    LoginResolved("true") => (user # Null /\ CacheIsUser)

\* C4: at the moment login resolves false, the user is null and the cache
\* key is absent.
C4_FalseMeansCleared ==
    LoginResolved("false") => (user = Null /\ lsAuth = Absent)
\* A login resolved false while a user was in memory.
C4_Witness ==
    LoginResolved("false") /\ ev.wasAuth

\* C5: when logout returns, neither storage holds an 'sb-' key, the cache
\* key is absent and nobody is authenticated.
C5_LogoutLeavesNothing ==
    ev.op = "logoutReturned" =>
        /\ NoSbKey(lsKeys)
        /\ NoSbKey(ssKeys)
        /\ lsAuth = Absent
        /\ user = Null
\* logout returned where a user was in memory and an 'sb-' key in the storage.
C5_Witness ==
    ev.op = "logoutReturned" /\ ev.wasAuth /\ ev.hadSb

\* C6: a logout that was called and not yet followed by a reload still has
\* the step pending that leads to the reload (logout itself, or its timer).
C6_ReloadStaysPending ==
    reloadOwed => (logoutPc # "idle" \/ timerPc # "none")

\* C7: when the reload scheduled by logout happens, localStorage holds neither
\* the cache key nor an 'sb-' key and sessionStorage is empty.
C7_ReloadFindsNothing ==
    ev.op = "reload" => (lsAuth = Absent /\ NoSbKey(lsKeys) /\ ssKeys = {})
\* The reload happened after something had written the cache or an 'sb-' key
\* again since logout cleared them.
C7_Witness ==
    ev.op = "reload" /\ ev.dirty

\* C8: a logout whose signOut answered { error } or threw still returns with
\* the cache removed, the user null and the 'sb-' keys gone.
C8_SignOutFailureStillClears ==
    (ev.op = "logoutReturned" /\ ev.signOut \in {"error", "threw"}) =>
        (lsAuth = Absent /\ user = Null /\ NoSbKey(lsKeys) /\ NoSbKey(ssKeys))
\* logout returned after a signOut that threw, with a user in memory before.
C8_Witness ==
    ev.op = "logoutReturned" /\ ev.signOut = "threw" /\ ev.wasAuth /\ ev.hadSb

\* C9: whenever the in-memory user is set, localStorage holds that profile
\* under auth_user.
C9_UserIsCached ==
    user # Null => CacheIsUser
\* A user set again between logout's clearing and the reload.
C9_Witness ==
    user # Null /\ timerPc = "scheduled"

\* C10: the user goes from set to null only when logout clears it (or its
\* reload happens), on a SIGNED_OUT notification, or when a login fails.
C10_OnlyExplicitClears ==
    [][(user # Null /\ user' = Null) =>
          \/ ev'.op \in {"logoutReturned", "reload", "signedOut"}
          \/ (ev'.op = "loginResolved" /\ ev'.res = "false")]_vars

\* C11: a refreshUser whose session lookup throws, and a profile fetch that
\* fails at getUser, at the select or at the insert, end with `user` and the
\* cache as they found them: a user in memory stays in memory.
C11_RefreshFailureKeepsUser ==
    ((ev.op = "refreshResolved" /\ ev.how = "threw") \/ ev.op = "fetchFailed")
        => LeftAlone
\* The session lookup of refreshUser threw while a user was in memory.
C11_Witness ==
    ev.op = "refreshResolved" /\ ev.how = "threw" /\ ev.userWas # Null

\* C12: a refreshUser that finds no session sets the user to the cached
\* profile when the user is null and the cache parses, and leaves a user that
\* is set, and its cache, as they are.
C12_RestoresFromCache ==
    (ev.op = "refreshResolved" /\ ev.how = "noSession") =>
        /\ (ev.userWas = Null /\ ParseOk(ev.cacheWas)) =>
              (user = Parse(ev.cacheWas) /\ lsAuth = ev.cacheWas)
        /\ ev.userWas # Null => LeftAlone
\* refreshUser found no session and restored the user from the cache.
C12_Witness ==
    /\ ev.op = "refreshResolved" /\ ev.how = "noSession"
    /\ ev.userWas = Null /\ user # Null

\* C13: register rejects only when its request failed, and a register whose
\* response carried a user resolves with that user in memory and in the
\* cache, whether the response had no session or setSession installed it,
\* refused it or threw.
C13_RegisteredUserIsAdopted ==
    /\ ev.op = "registerRejected" => ev.how = "request"
    /\ (ev.op = "registerResolved" /\ ev.returned # Null) =>
          (user = ev.returned /\ lsAuth = Stringify(ev.returned))
\* register resolved with the returned user after setSession threw.
C13_Witness ==
    ev.op = "registerResolved" /\ ev.returned # Null /\ ev.session = "threw"

\* C14: the step in which register rejects because its request failed
\* changes neither `user` nor the cache.
C14_RegisterFailureKeepsState ==
    ev.op = "registerRejected" => LeftAlone
\* register rejected while a user was in memory.
C14_Witness ==
    ev.op = "registerRejected" /\ ev.userWas # Null /\ user # Null

\* C15: no update request is ever in flight for a null user, and updateUser
\* called with a null user rejects in the step of the call with nothing sent
\* and `user` and the cache as they were.
C15_NoUserNoRequest ==
    /\ updPc = "update" => updId # "null"
    /\ (ev.op = "updateRejected" /\ ev.how = "noUser") =>
          (updPc = "idle" /\ user = Null /\ LeftAlone)
\* updateUser was called with no user in memory and rejected.
C15_Witness ==
    ev.op = "updateRejected" /\ ev.how = "noUser" /\ user = Null

\* C16: when updateUser resolves, `user` and the cache are the row the store
\* returned, whatever the profile in memory and the payload were.
C16_AdoptsReturnedRow ==
    ev.op = "updateResolved" =>
        (user = ev.returned /\ lsAuth = Stringify(ev.returned))
\* The returned row carries a category the profile in memory did not have and
\* the payload did not name: a merge would have kept the old one.
C16_Witness ==
    /\ ev.op = "updateResolved"
    /\ "category" \notin DOMAIN ev.sent
    /\ ev.returned.category # ev.userWas.category
    /\ user.category = ev.returned.category

\* The row that the request of the last step addressed, had it been keyed by
\* the user in memory.
OwnRow == CHOOSE r \in ev.tableWas : r.id = ev.userWas.id
\* C17: a request of updateUser is keyed by the id of the user in memory and
\* its body is the payload plus updated_at; when the store has applied it,
\* every row of another id is as it was, and the row returned is the user's
\* own row changed in the fields of the body only.
C17_UpdatesOwnRowOnly ==
    /\ ev.op = "updateSent" =>
          /\ updId = ev.me
          /\ DOMAIN updData = DOMAIN ev.data \cup {"updated_at"}
          /\ \A f \in DOMAIN ev.data \ {"updated_at"} : updData[f] = ev.data[f]
    /\ ev.op \in {"updateResolved", "updateRejected"} =>
          \A r \in ev.tableWas : r.id # ev.userWas.id => r \in table
    /\ ev.op = "updateResolved" =>
          /\ \E r \in ev.tableWas : r.id = ev.userWas.id
          /\ \A f \in RowFields \ DOMAIN ev.sent : ev.returned[f] = OwnRow[f]
\* The payload named a new id: the store re-keyed the user's own row, and the
\* row of another user is in the table as before.
C17_Witness ==
    /\ ev.op = "updateResolved"
    /\ "id" \in DOMAIN ev.sent
    /\ ev.returned.id # ev.userWas.id
    /\ \E r \in table : r.id \notin {ev.userWas.id, ev.returned.id}

\* C18: the step in which updateUser rejects because the store answered with
\* an error changes neither `user` nor the cache.
C18_StoreErrorKeepsState ==
    (ev.op = "updateRejected" /\ ev.how = "store") => LeftAlone
\* The store refused an update of a user in memory.
C18_Witness ==
    ev.op = "updateRejected" /\ ev.how = "store" /\ user # Null

\* C19: while the session lookup of the mount effect is pending, a cache that
\* parses is the user in memory, and a lookup that reports no session leaves
\* the cache and the user as it found them.
C19_OptimisticLoad ==
    /\ (checkPc = "getSession" /\ ParseOk(lsAuth)) => user = Parse(lsAuth)
    /\ ev.op = "checkAuthNoSession" => LeftAlone

\* C20: a profile fetch that finds no row for the session user's id goes on
\* to insert one with that id, and a fetch that ends with a row, found or
\* inserted, leaves that row as the user in memory and in the cache.
C20_MissingRowIsCreated ==
    /\ ev.op = "fetchRowMissing" =>
          fetches[[at |-> "insert", id |-> ev.id]] > 0
    /\ ev.op = "fetchAdopted" =>
          (user # Null /\ user.id = ev.id /\ CacheIsUser)
\* A fetch inserted the missing row and adopted it while no user was in memory.
C20_Witness ==
    ev.op = "fetchAdopted" /\ ev.how = "insert" /\ user # Null

\* C21: in every state the handler takes a sign-out; a SIGNED_OUT leaves the
\* user null and the cache absent, a SIGNED_IN or TOKEN_REFRESHED with an
\* access token starts one profile fetch, and every other notification
\* leaves the user and the cache as they were.
C21_NotificationsHandled ==
    /\ ENABLED OnAuthStateChange("SIGNED_OUT", FALSE)
    /\ ev.op = "notified" =>
          IF ev.event = "SIGNED_OUT"
          THEN user = Null /\ lsAuth = Absent
          ELSE /\ LeftAlone
               /\ (ev.event \in {"SIGNED_IN", "TOKEN_REFRESHED"} /\ ev.token) =>
                     fetches[AtGetUser] = ev.fetchesWas + 1
\* A token refresh arrived while a user was in memory and started a fetch.
C21_Witness ==
    /\ ev.op = "notified" /\ ev.event = "TOKEN_REFRESHED" /\ ev.token
    /\ user # Null /\ fetches[AtGetUser] > 0

\* C22: a login whose backend response contained a user resolves true,
\* however the installation of the tokens, the session lookup after it and
\* the background fetch went.
C22_SideChannelsNeverFailLogin ==
    (ev.op = "loginResolved" /\ ev.hadUser) => ev.res = "true"

\* C23: a request of login or register ends by the answer of the transport
\* or by the transport's own error, never by an act of the client.
C23_NoClientTimeout ==
    ev.op = "apiEnded" => ev.how \in {"ok", "http", "transport"}

C25_JoinedCallIsNotChecked ==
    /\ \A c, d \in Callers :
          (awaiting[c] # NoCaller /\ awaiting[d] # NoCaller) =>
              awaiting[c] = awaiting[d]
    /\ \A c \in Callers :
          (awaiting[c] # NoCaller /\ awaiting[c] # c) =>
              /\ loginPc[c] = "idle"
              /\ Credentials(c) \notin CredentialsChecked
              /\ Credentials(awaiting[c]) \in CredentialsChecked
    /\ ev.op = "loginResolved" =>
          \A c \in Callers : ev.got[c] \in {"none", ev.res}
\* A caller with other credentials joined a login whose backend request had
\* already been answered with a user.
C25_Witness ==
    \E c \in Callers :
        /\ awaiting[c] # NoCaller /\ awaiting[c] # c
        /\ Credentials(c) # Credentials(awaiting[c])
        /\ loginPc[awaiting[c]] = "getSession"

\* C26 as stated: the slot is non-empty only while the POST /auth/login of
\* its call is pending, and it is empty once a login has resolved.
C26_SlotOnlyWhileRequestPending ==
    /\ loginPromiseRef # NoCaller => loginPc[loginPromiseRef] = "apiFetch"
    /\ ev.op = "loginResolved" => loginPromiseRef = NoCaller
\* C26, amended: the slot is non-empty exactly while the call that filled
\* it is pending, at its backend request or at the setSession and getSession
\* that follow it; once a login has resolved the slot is empty and no login
\* task is left, so a request that is pending afterwards is the one request
\* of a new call.
C26_SlotOnlyWhileLoginPending ==
    /\ loginPromiseRef # NoCaller => loginPc[loginPromiseRef] # "idle"
    /\ \A c \in Callers : loginPc[c] # "idle" => loginPromiseRef = c
    /\ ev.op = "loginResolved" =>
          (loginPromiseRef = NoCaller /\ \A c \in Callers : loginPc[c] = "idle")
    /\ \A c \in Callers : loginPc[c] = "apiFetch" => loginReqs = 1
\* A login resolved false and left the slot empty.
C26_Witness ==
    ev.op = "loginResolved" /\ ev.res = "false" /\ loginPromiseRef = NoCaller

\* C27: the step that follows logout's cleanup leaves the user null and the
\* cache absent.  A call made after the cleanup needs a step to start, so a
\* step that writes the user there is the completion of a login, a profile
\* fetch or an updateUser that was in flight when logout ran.
C27_InFlightTasksStayOut ==
    [][ev.op = "logoutReturned" => (user' = Null /\ lsAuth' = Absent)]_vars

\* C28: while a login or a register is pending, isLoading is true.
C28_LoadingWhilePending ==
    (regPc # "idle" \/ \E c \in Callers : loginPc[c] # "idle")
        => isLoading = TRUE

\* C29: a register that resolves has set the user to the one its response
\* carried.
C29_ResolvedRegisterSetsUser ==
    ev.op = "registerResolved" => (ev.returned # Null /\ user = ev.returned)

\* C30: the step in which a profile fetch gives up (no hosted user, a lookup
\* that throws, a row that can be neither read nor inserted) ends the fetch
\* without rejecting, leaves `user` and the cache as they were and leaves
\* isLoading false.
C30_FailedFetchIsSilent ==
    ev.op = "fetchFailed" => (LeftAlone /\ isLoading = FALSE)
\* A fetch gave up while a cached user was in memory.
C30_Witness ==
    /\ ev.op = "fetchFailed"
    /\ ev.userWas # Null
    /\ ev.cacheWas = Stringify(ev.userWas)
    /\ isLoading = FALSE

=============================================================================
